---- MODULE Spec2Model ----
(* Speed-gate sensor front end: the Sensor Station of sensor_thread.c     *)
(* (start_isr, end_isr, axle_timer_expiry over file-level variables and a  *)
(* one-shot k_timer), the header state machine of sensor_fsm.h driven by   *)
(* the same timestamped events, and the pure helpers of utils.c.           *)
EXTENDS Integers, Sequences, FiniteSets, TLC

(* ------------------------------ bounds -------------------------------- *)
\* entry edges the environment delivers after the warm-up traffic
MaxEntries == 4
\* clock advances the environment takes after the warm-up traffic
MaxTicks == 3
\* the same two budgets where a behaviour is followed to its end
LiveEntries == 3
LiveTicks == 2
\* cycles of uniform traffic (one axle, exit 10 ms later) that precede the
\* free traffic in the queue-pressure scenario
WarmCycles == 9

\* amounts of time (ms) by which the environment lets the clock advance
Steps == {10, 190}

(* ------------------------- program constants -------------------------- *)
\* K_SECONDS(2) in k_timer_start
TimeoutMs == 2000
\* capacity of sensor_msgq (defined outside src/; the reference capacity)
SensorMsgqMax == 10
\* 2^16: a uint32_t is held as two 16-bit halves wherever its value can
\* leave the range of the model checker's integers
Half == 65536

\* (uint32_t)x for 0 <= x < 2^31
ToUint32(x) == (x % Half) + Half * ((x \div Half) % Half)

SENSOR_IDLE == "SENSOR_IDLE"
SENSOR_ACTIVE == "SENSOR_ACTIVE"
VEHICLE_LIGHT == "VEHICLE_LIGHT"
VEHICLE_HEAVY == "VEHICLE_HEAVY"

VARIABLES
    now,             \* k_uptime_get(): monotonic milliseconds
    state,           \* sensor_thread.c file-level FSM variables
    start_time,
    end_time,
    axle_count,
    speed_measured,
    timer_armed,     \* axle_timer: a one-shot timeout is pending
    timer_deadline,  \* uptime at which the pending timeout fires
    sensor_msgq,     \* TransitRecord queue, oldest first
    st_produced,     \* the last axle_timer_expiry built a sensor_data_t
    st_data,         \* that sensor_data_t
    st_put,          \* result of its k_msgq_put: "none", "ok", "full"
    fsm,             \* sensor_fsm_t of sensor_fsm.h
    fsm_ret,         \* last return value of sensor_fsm_finalize
    fsm_out,         \* *out_data of sensor_fsm_finalize
    ev,              \* the handler that ran last
    warm,            \* scenario: number of uniform warm-up cycles
    max_entries,     \* scenario: entry edges delivered after the warm-up
    max_ticks,       \* scenario: clock advances taken after the warm-up
    cycles,          \* cycles opened so far
    finals,          \* timeouts that found the station Active so far
    entries,         \* entry edges delivered after the warm-up
    ticks,           \* clock advances taken after the warm-up
    g_open,          \* observer: a cycle is open
    g_open_time,     \* observer: timestamp of the cycle-opening entry edge
    g_entries,       \* observer: entry edges of the open cycle
    g_last_entry,    \* observer: timestamp of its latest entry edge
    g_first_exit,    \* observer: timestamp of its first exit edge, or -1
    exp_pc,          \* axle_timer_expiry run line by line: "idle" or its line
    exp_data,        \* its local sensor_data_t data
    boot_pc,         \* sensor_thread_entry: "start_cb", "end_cb", "running",
                     \* or "fault"
    calc_pc,         \* calculate_speed: "idle", "call", "done", "fault"
    calc_distance,   \* its distance_mm
    calc_duration,   \* its duration_ms, as <<high half, low half>>
    calc_result,     \* its return value
    calc_div0,       \* it executed a division whose divisor was zero
    plate_pc,        \* validate_plate: "idle", "call", "done"
    plate_str,       \* its plate, as the character codes before the NUL
    plate_ok,        \* its return value
    class_pc,        \* classification of one record: "idle", "call", "done"
    class_cfg,       \* its configuration: gate distance, limits, threshold
    class_rec,       \* the transit record it consumes
    class_speed,     \* speed_kmh it computed
    class_limit,     \* limit_kmh it selected
    class_status,    \* the status it assigned
    duty_cycle,      \* pwm_led_fade: static uint32_t, as <<high half, low half>>
    direction,       \* pwm_led_fade: static int8_t
    pulse_us,        \* the pulse width of its last pwm_set_dt, as two halves
    fade_calls       \* calls of pwm_led_fade so far

stationVars == <<state, start_time, end_time, axle_count, speed_measured>>
timerVars == <<timer_armed, timer_deadline>>
outVars == <<sensor_msgq, st_produced, st_data, st_put>>
fsmVars == <<fsm, fsm_ret, fsm_out>>
obsVars == <<g_open, g_open_time, g_entries, g_last_entry, g_first_exit>>
envVars == <<warm, max_entries, max_ticks, cycles, finals, entries, ticks>>
calcVars == <<calc_pc, calc_distance, calc_duration, calc_result, calc_div0>>
expVars == <<exp_pc, exp_data>>
bootVars == <<boot_pc>>
sensorVars ==
    <<now, stationVars, timerVars, outVars, fsmVars, ev, envVars, obsVars,
      expVars, bootVars>>
plateVars == <<plate_pc, plate_str, plate_ok>>
classVars ==
    <<class_pc, class_cfg, class_rec, class_speed, class_limit, class_status>>
\* what the handlers of sensor_thread.c and sensor_fsm.h never touch
fadeVars == <<duty_cycle, direction, pulse_us, fade_calls>>
pureVars == <<calcVars, plateVars, classVars, fadeVars>>
\* what they never touch when each runs to completion in a running station
restVars == <<pureVars, expVars, bootVars>>
vars == <<sensorVars, pureVars>>

(* ----------------------------- sensor_fsm.h --------------------------- *)
classify_axles_lt2(n) == IF n < 2 THEN VEHICLE_LIGHT ELSE VEHICLE_HEAVY

classify_axles(n) == IF n <= 2 THEN VEHICLE_LIGHT ELSE VEHICLE_HEAVY

sensor_fsm_init ==
    [state |-> SENSOR_IDLE, start_time |-> 0, end_time |-> 0,
     axle_count |-> 0, speed_measured |-> FALSE]

sensor_fsm_handle_start(f, ts) ==
    IF f.state = SENSOR_IDLE
    THEN [state |-> SENSOR_ACTIVE, start_time |-> ts, end_time |-> 0,
          axle_count |-> 1, speed_measured |-> FALSE]
    ELSE [f EXCEPT !.axle_count = ToUint32(@ + 1)]

sensor_fsm_handle_end_last(f, ts) ==
    IF f.state = SENSOR_ACTIVE
    THEN [f EXCEPT !.end_time = ts, !.speed_measured = TRUE]
    ELSE f

sensor_fsm_handle_end(f, ts) ==
    IF f.state = SENSOR_ACTIVE /\ ~f.speed_measured
    THEN [f EXCEPT !.end_time = ts, !.speed_measured = TRUE]
    ELSE f

\* the condition of sensor_fsm_finalize under which out_data is written
fsm_valid(f) == f.speed_measured /\ f.end_time > f.start_time

\* the sensor_data_t written by sensor_fsm_finalize
fsm_data(f) ==
    [timestamp_start |-> f.start_time,
     timestamp_end |-> f.end_time,
     duration_ms |-> ToUint32(f.end_time - f.start_time),
     axle_count |-> f.axle_count,
     type |-> classify_axles(f.axle_count)]

\* sensor_fsm_finalize: <<fsm after, return value, out_data after>>
sensor_fsm_finalize(f, out) ==
    IF f.state # SENSOR_ACTIVE
    THEN <<f, FALSE, out>>
    ELSE <<sensor_fsm_init, fsm_valid(f), IF fsm_valid(f) THEN fsm_data(f) ELSE out>>

(* --------------------------- sensor_thread.c -------------------------- *)
\* the file-level state machine variables, as one value
Station ==
    [state |-> state, start_time |-> start_time, end_time |-> end_time,
     axle_count |-> axle_count, speed_measured |-> speed_measured]

\* axle_timer, as one value
Timer == [armed |-> timer_armed, deadline |-> timer_deadline]

\* k_timer_start(&axle_timer, K_SECONDS(2), K_NO_WAIT) at uptime t: a
\* one-shot timeout, replacing any pending one
k_timer_start(t) == [armed |-> TRUE, deadline |-> t + TimeoutMs]

\* k_msgq_put(&sensor_msgq, &data, K_NO_WAIT): no wait, the message is
\* refused when the queue is full
k_msgq_full(q) == Len(q) >= SensorMsgqMax

k_msgq_put(q, d) == IF k_msgq_full(q) THEN q ELSE Append(q, d)

start_isr_nocount(s, tm, t) ==
    IF s.state = SENSOR_IDLE
    THEN [st |-> [s EXCEPT !.state = SENSOR_ACTIVE, !.start_time = t,
                           !.axle_count = 1, !.speed_measured = FALSE],
          timer |-> k_timer_start(t)]
    ELSE [st |-> s, timer |-> k_timer_start(t)]

start_isr_norearm(s, tm, t) ==
    IF s.state = SENSOR_IDLE
    THEN [st |-> [s EXCEPT !.state = SENSOR_ACTIVE, !.start_time = t,
                           !.axle_count = 1, !.speed_measured = FALSE],
          timer |-> k_timer_start(t)]
    ELSE [st |-> [s EXCEPT !.axle_count = ToUint32(@ + 1)], timer |-> tm]

start_isr_restart(s, tm, t) ==
    IF s.state = SENSOR_IDLE
    THEN [st |-> [s EXCEPT !.state = SENSOR_ACTIVE, !.start_time = t,
                           !.axle_count = 1, !.speed_measured = FALSE],
          timer |-> k_timer_start(t)]
    ELSE [st |-> [s EXCEPT !.start_time = t, !.axle_count = ToUint32(@ + 1)],
          timer |-> k_timer_start(t)]

start_isr_keepflag(s, tm, t) ==
    IF s.state = SENSOR_IDLE
    THEN [st |-> [s EXCEPT !.state = SENSOR_ACTIVE, !.start_time = t,
                           !.axle_count = 1],
          timer |-> k_timer_start(t)]
    ELSE [st |-> [s EXCEPT !.axle_count = ToUint32(@ + 1)],
          timer |-> k_timer_start(t)]

\* start_isr at uptime t: the variables and the timer after it
start_isr(s, tm, t) ==
    IF s.state = SENSOR_IDLE
    THEN [st |-> [s EXCEPT !.state = SENSOR_ACTIVE, !.start_time = t,
                           !.axle_count = 1, !.speed_measured = FALSE],
          timer |-> k_timer_start(t)]
    ELSE [st |-> [s EXCEPT !.axle_count = ToUint32(@ + 1)],
          timer |-> k_timer_start(t)]

end_isr_last(s, t) ==
    IF s.state = SENSOR_ACTIVE
    THEN [s EXCEPT !.end_time = t, !.speed_measured = TRUE]
    ELSE s

end_isr_anystate(s, t) ==
    IF ~s.speed_measured
    THEN [s EXCEPT !.end_time = t, !.speed_measured = TRUE]
    ELSE s

\* end_isr at uptime t
end_isr(s, t) ==
    IF s.state = SENSOR_ACTIVE /\ ~s.speed_measured
    THEN [s EXCEPT !.end_time = t, !.speed_measured = TRUE]
    ELSE s

reading_valid_ge(s) == s.speed_measured /\ s.end_time >= s.start_time

\* the "Valid reading" condition of axle_timer_expiry
reading_valid(s) == s.speed_measured /\ s.end_time > s.start_time

\* the sensor_data_t built by axle_timer_expiry
station_data(s) ==
    [timestamp_start |-> s.start_time,
     timestamp_end |-> s.end_time,
     duration_ms |-> ToUint32(s.end_time - s.start_time),
     axle_count |-> s.axle_count,
     type |-> IF s.axle_count <= 2 THEN VEHICLE_LIGHT ELSE VEHICLE_HEAVY]

\* a sensor_data_t nobody has written yet
NoData ==
    [timestamp_start |-> 0, timestamp_end |-> 0, duration_ms |-> 0,
     axle_count |-> 0, type |-> VEHICLE_LIGHT]

axle_timer_expiry_noreset(s, q) ==
    IF s.state = SENSOR_ACTIVE
    THEN IF reading_valid(s)
         THEN [st |-> s, produced |-> TRUE, data |-> station_data(s),
               put |-> IF k_msgq_full(q) THEN "full" ELSE "ok",
               q |-> k_msgq_put(q, station_data(s))]
         ELSE [st |-> s, produced |-> FALSE, data |-> NoData,
               put |-> "none", q |-> q]
    ELSE [st |-> s, produced |-> FALSE, data |-> NoData,
          put |-> "none", q |-> q]

axle_timer_expiry_reset_on_put(s, q) ==
    IF s.state = SENSOR_ACTIVE
    THEN IF reading_valid(s)
         THEN [st |-> IF k_msgq_full(q) THEN s ELSE [s EXCEPT !.state = SENSOR_IDLE],
               produced |-> TRUE, data |-> station_data(s),
               put |-> IF k_msgq_full(q) THEN "full" ELSE "ok",
               q |-> k_msgq_put(q, station_data(s))]
         ELSE [st |-> [s EXCEPT !.state = SENSOR_IDLE],
               produced |-> FALSE, data |-> NoData,
               put |-> "none", q |-> q]
    ELSE [st |-> s, produced |-> FALSE, data |-> NoData,
          put |-> "none", q |-> q]

\* axle_timer_expiry with the variables s and the queue q: the variables and
\* the queue after it, whether a sensor_data_t was built, and what became of
\* its k_msgq_put
axle_timer_expiry(s, q) ==
    IF s.state = SENSOR_ACTIVE
    THEN IF reading_valid(s)
         THEN [st |-> [s EXCEPT !.state = SENSOR_IDLE],
               produced |-> TRUE, data |-> station_data(s),
               put |-> IF k_msgq_full(q) THEN "full" ELSE "ok",
               q |-> k_msgq_put(q, station_data(s))]
         ELSE [st |-> [s EXCEPT !.state = SENSOR_IDLE],
               produced |-> FALSE, data |-> NoData,
               put |-> "none", q |-> q]
    ELSE [st |-> s, produced |-> FALSE, data |-> NoData,
          put |-> "none", q |-> q]

(* ------------------------------- utils.c ------------------------------ *)
\* a uint32_t as <<high half, low half>>
U32IsZero(u) == u[1] = 0 /\ u[2] = 0

\* duration_ms * 10 in uint32_t arithmetic: the carry out of the high half
\* is lost
U32Mul10(u) ==
    <<(u[1] * 10 + ((u[2] * 10) \div Half)) % Half, (u[2] * 10) % Half>>

\* n / d for a uint64_t n < 2^31 and a non-zero uint32_t d
U64Div(n, d) ==
    IF d[1] >= Half \div 2 THEN 0 ELSE n \div (d[1] * Half + d[2])

\* the divisor of calculate_speed's division
calc_divisor(duration_ms) == U32Mul10(duration_ms)

\* a variant that rounds the quotient to the nearest integer
calculate_speed_round(distance_mm, duration_ms) ==
    IF U32IsZero(duration_ms)
    THEN 0
    ELSE ToUint32(U64Div(distance_mm * 36 + 5 * duration_ms[2],
                         calc_divisor(duration_ms)))

\* calculate_speed where its division is defined
calculate_speed(distance_mm, duration_ms) ==
    IF U32IsZero(duration_ms)
    THEN 0
    ELSE ToUint32(U64Div(distance_mm * 36, calc_divisor(duration_ms)))

\* inputs of calculate_speed; distance_mm * 36 stays below 2^31
DistanceSet == {0, 1, 277, 3000, 100000, 10000000, 59000000}

\* 0, 1, 200, 1000, 429496729, 429496730, 2147483648, 4294967295
DurationSet ==
    {<<0, 0>>, <<0, 1>>, <<0, 200>>, <<0, 1000>>, <<6553, 39321>>,
     <<6553, 39322>>, <<32768, 0>>, <<65535, 65535>>}

InitCalcIdle ==
    /\ calc_pc = "idle"
    /\ calc_distance = 0
    /\ calc_duration = <<0, 0>>
    /\ calc_result = 0
    /\ calc_div0 = FALSE

\* calculate_speed returns
CalculateSpeed ==
    /\ calc_pc = "call"
    /\ U32IsZero(calc_duration) \/ ~U32IsZero(calc_divisor(calc_duration))
    /\ calc_pc' = "done"
    /\ calc_result' = calculate_speed(calc_distance, calc_duration)
    /\ UNCHANGED <<sensorVars, plateVars, classVars, fadeVars, calc_distance, calc_duration,
                   calc_div0>>

\* calculate_speed divides by zero: the behaviour is undefined; the division
\* traps, or the function returns with the quotient the hardware leaves
CalculateSpeedDivZero ==
    /\ calc_pc = "call"
    /\ ~U32IsZero(calc_duration)
    /\ U32IsZero(calc_divisor(calc_duration))
    /\ calc_div0' = TRUE
    /\ \E o \in {"fault", "done"} : calc_pc' = o
    /\ calc_result' = 0
    /\ UNCHANGED <<sensorVars, plateVars, classVars, fadeVars, calc_distance,
                   calc_duration>>

\* strlen(plate) != 7
PlateLen == 7
\* 'A', 'Z', '0', '9'
ChA == 65
ChZ == 90
Ch0 == 48
Ch9 == 57

validate_plate_short(plate) ==
    IF Len(plate) # PlateLen THEN FALSE
    ELSE IF \E i \in 0..2 : plate[i + 1] < ChA \/ plate[i + 1] > ChZ THEN FALSE
    ELSE IF plate[4] < Ch0 \/ plate[4] > Ch9 THEN FALSE
    ELSE IF plate[5] < ChA \/ plate[5] > ChZ THEN FALSE
    ELSE IF \E i \in 5..5 : plate[i + 1] < Ch0 \/ plate[i + 1] > Ch9 THEN FALSE
    ELSE TRUE

\* validate_plate; plate[i] of the source is plate[i + 1] here
validate_plate(plate) ==
    IF Len(plate) # PlateLen THEN FALSE
    ELSE IF \E i \in 0..2 : plate[i + 1] < ChA \/ plate[i + 1] > ChZ THEN FALSE
    ELSE IF plate[4] < Ch0 \/ plate[4] > Ch9 THEN FALSE
    ELSE IF plate[5] < ChA \/ plate[5] > ChZ THEN FALSE
    ELSE IF \E i \in 5..6 : plate[i + 1] < Ch0 \/ plate[i + 1] > Ch9 THEN FALSE
    ELSE TRUE

\* "ABC1D23", "ABC123D", "abc1d23", "ABC1D2", "ABC1D234", "ZZZ9Z99"
PlateABC1D23 == <<65, 66, 67, 49, 68, 50, 51>>
PlateABC123D == <<65, 66, 67, 49, 50, 51, 68>>
Plateabc1d23 == <<97, 98, 99, 49, 100, 50, 51>>
PlateABC1D2 == <<65, 66, 67, 49, 68, 50>>
PlateABC1D234 == <<65, 66, 67, 49, 68, 50, 51, 52>>
PlateZZZ9Z99 == <<90, 90, 90, 57, 90, 57, 57>>

\* 'A', 'Z', '@', '[', 'a', '0', '9', '/', ':', ' '
PlateChars == {65, 90, 64, 91, 97, 48, 57, 47, 58, 32}

\* inputs of validate_plate: the named plates, the empty string, and
\* "ABC1D23" with one character replaced
PlateSet ==
    {PlateABC1D23, PlateABC123D, Plateabc1d23, PlateABC1D2, PlateABC1D234,
     PlateZZZ9Z99, << >>}
    \cup {[PlateABC1D23 EXCEPT ![i] = c] : i \in 1..7, c \in PlateChars}

InitPlateIdle ==
    /\ plate_pc = "idle"
    /\ plate_str = << >>
    /\ plate_ok = FALSE

\* validate_plate returns
ValidatePlate ==
    /\ plate_pc = "call"
    /\ plate_pc' = "done"
    /\ plate_ok' = validate_plate(plate_str)
    /\ UNCHANGED <<sensorVars, calcVars, classVars, fadeVars, plate_str>>

(* --------------------------- classification --------------------------- *)
STATUS_NORMAL == "Normal"
STATUS_WARNING == "Warning"
STATUS_INFRACTION == "Infraction"

\* limit_kmh is selected by vehicle_type from the two configured limits
select_limit(cfg, type) ==
    IF type = VEHICLE_LIGHT THEN cfg.limit_light_kmh ELSE cfg.limit_heavy_kmh

\* the status policy, evaluated in order, in unsigned integer arithmetic
classify_status(speed_kmh, limit_kmh, warning_threshold_percent) ==
    IF speed_kmh > limit_kmh THEN STATUS_INFRACTION
    ELSE IF speed_kmh >= (limit_kmh * warning_threshold_percent) \div 100
    THEN STATUS_WARNING
    ELSE STATUS_NORMAL

\* configurations and records classification is run on: with a gate of
\* 3000 mm the durations 240, 226, 225, 180 and 177 ms give 45, 47, 48, 60
\* and 61 km/h
ClassCfgSet ==
    [distance_mm : {1000, 3000}, limit_light_kmh : {60, 100},
     limit_heavy_kmh : {45, 60}, warning_threshold_percent : {80, 90}]

ClassRecSet ==
    [duration_ms : {1, 177, 180, 225, 226, 240, 300, 2000},
     type : {VEHICLE_LIGHT, VEHICLE_HEAVY}]

InitClassIdle ==
    /\ class_pc = "idle"
    /\ class_cfg = [distance_mm |-> 0, limit_light_kmh |-> 0,
                    limit_heavy_kmh |-> 0, warning_threshold_percent |-> 0]
    /\ class_rec = [duration_ms |-> 0, type |-> VEHICLE_LIGHT]
    /\ class_speed = 0
    /\ class_limit = 0
    /\ class_status = STATUS_NORMAL

\* classification of one transit record
ClassifyRecord ==
    /\ class_pc = "call"
    /\ class_pc' = "done"
    /\ class_speed' =
           calculate_speed(class_cfg.distance_mm, <<0, class_rec.duration_ms>>)
    /\ class_limit' = select_limit(class_cfg, class_rec.type)
    /\ class_status' =
           classify_status(class_speed', class_limit',
                           class_cfg.warning_threshold_percent)
    /\ UNCHANGED <<sensorVars, calcVars, plateVars, fadeVars, class_cfg, class_rec>>

(* ------------------------------- main.c ------------------------------- *)
\* calls of pwm_led_fade followed
MaxFadeCalls == 100

PWM_PERIOD_US == 20000
PWM_FADE_STEP == 5

\* a uint32_t plus an int, modulo 2^32; k is within -Half..Half
U32AddInt(u, k) ==
    LET low == u[2] + k
        carry == IF low < 0 THEN -1 ELSE low \div Half
    IN  <<(u[1] + carry + Half) % Half, (low + Half) % Half>>

\* (PWM_PERIOD_US * u) / 100 in uint32_t arithmetic
fade_pulse(u) ==
    LET low == u[2] * PWM_PERIOD_US
        high == (u[1] * PWM_PERIOD_US + low \div Half) % Half
    IN  <<high \div 100, ((high % 100) * Half + (low % Half)) \div 100>>

\* duty_cycle >= 100
U32Ge100(u) == u[1] > 0 \/ u[2] >= 100

\* duty_cycle <= 0 || (int32_t)duty_cycle < 0
U32LeZeroOrNegative(u) == u = <<0, 0>> \/ u[1] >= Half \div 2

pwm_led_fade_noflip(duty, dir) ==
    LET next == U32AddInt(duty, dir * PWM_FADE_STEP)
    IN  IF U32Ge100(next)
        THEN [duty_cycle |-> <<0, 100>>, direction |-> -1,
              pulse_us |-> fade_pulse(duty)]
        ELSE IF U32LeZeroOrNegative(next)
        THEN [duty_cycle |-> <<0, 0>>, direction |-> dir,
              pulse_us |-> fade_pulse(duty)]
        ELSE [duty_cycle |-> next, direction |-> dir,
              pulse_us |-> fade_pulse(duty)]

\* pwm_led_fade with PWM_AVAILABLE: the statics after the call and the
\* pulse width it applied
pwm_led_fade(duty, dir) ==
    LET next == U32AddInt(duty, dir * PWM_FADE_STEP)
    IN  IF U32Ge100(next)
        THEN [duty_cycle |-> <<0, 100>>, direction |-> -1,
              pulse_us |-> fade_pulse(duty)]
        ELSE IF U32LeZeroOrNegative(next)
        THEN [duty_cycle |-> <<0, 0>>, direction |-> 1,
              pulse_us |-> fade_pulse(duty)]
        ELSE [duty_cycle |-> next, direction |-> dir,
              pulse_us |-> fade_pulse(duty)]

\* static uint32_t duty_cycle = 0; static int8_t direction = 1
InitFade ==
    /\ duty_cycle = <<0, 0>>
    /\ direction = 1
    /\ pulse_us = <<0, 0>>
    /\ fade_calls = 0

\* one call of pwm_led_fade from the main loop
PwmLedFade ==
    /\ fade_calls < MaxFadeCalls
    /\ fade_calls' = fade_calls + 1
    /\ duty_cycle' = pwm_led_fade(duty_cycle, direction).duty_cycle
    /\ direction' = pwm_led_fade(duty_cycle, direction).direction
    /\ pulse_us' = pwm_led_fade(duty_cycle, direction).pulse_us
    /\ UNCHANGED <<sensorVars, calcVars, plateVars, classVars>>

(* ------------------------------ scenario ------------------------------ *)
Scenario(w, e, t) == warm = w /\ max_entries = e /\ max_ticks = t

\* the open cycle, or the one about to open, belongs to the warm-up traffic
InWarm == IF state = SENSOR_ACTIVE THEN cycles <= warm ELSE cycles < warm

InitStation ==
    /\ now = 0
    /\ state = SENSOR_IDLE
    /\ start_time = 0
    /\ end_time = 0
    /\ axle_count = 0
    /\ speed_measured = FALSE
    /\ timer_armed = FALSE
    /\ timer_deadline = 0
    /\ sensor_msgq = << >>
    /\ st_produced = FALSE
    /\ st_data = NoData
    /\ st_put = "none"
    /\ fsm = sensor_fsm_init
    /\ fsm_ret = FALSE
    /\ fsm_out = NoData
    /\ ev = "init"
    /\ cycles = 0
    /\ finals = 0
    /\ entries = 0
    /\ ticks = 0
    /\ g_open = FALSE
    /\ g_open_time = 0
    /\ g_entries = 0
    /\ g_last_entry = 0
    /\ g_first_exit = -1
    /\ exp_pc = "idle"
    /\ exp_data = NoData

\* after sensor_thread_entry has reached its k_sleep(K_FOREVER)
InitSensor == InitStation /\ boot_pc = "running"

\* after line 161: the start callback is added, the end callback and the
\* timer are not yet initialised
InitBootStation == InitStation /\ boot_pc = "start_cb"

InitPureIdle == InitCalcIdle /\ InitPlateIdle /\ InitClassIdle /\ InitFade

Init == InitSensor /\ Scenario(0, MaxEntries, MaxTicks) /\ InitPureIdle

InitQ == InitSensor /\ Scenario(WarmCycles, MaxEntries, MaxTicks) /\ InitPureIdle

InitQLive == InitSensor /\ Scenario(WarmCycles, LiveEntries, LiveTicks) /\ InitPureIdle

InitBoot == InitBootStation /\ Scenario(0, MaxEntries, MaxTicks) /\ InitPureIdle

InitCalc ==
    /\ InitSensor
    /\ Scenario(0, MaxEntries, MaxTicks)
    /\ calc_pc = "call"
    /\ calc_distance \in DistanceSet
    /\ calc_duration \in DurationSet
    /\ calc_result = 0
    /\ calc_div0 = FALSE
    /\ InitPlateIdle
    /\ InitClassIdle
    /\ InitFade

InitPlate ==
    /\ InitSensor
    /\ Scenario(0, MaxEntries, MaxTicks)
    /\ InitCalcIdle
    /\ plate_pc = "call"
    /\ plate_str \in PlateSet
    /\ plate_ok = FALSE
    /\ InitClassIdle
    /\ InitFade

InitClass ==
    /\ InitSensor
    /\ Scenario(0, MaxEntries, MaxTicks)
    /\ InitCalcIdle
    /\ InitPlateIdle
    /\ class_pc = "call"
    /\ class_cfg \in ClassCfgSet
    /\ class_rec \in ClassRecSet
    /\ class_speed = 0
    /\ class_limit = 0
    /\ class_status = STATUS_NORMAL
    /\ InitFade

SetStation(s) ==
    /\ state' = s.state
    /\ start_time' = s.start_time
    /\ end_time' = s.end_time
    /\ axle_count' = s.axle_count
    /\ speed_measured' = s.speed_measured

SetTimer(tm) ==
    /\ timer_armed' = tm.armed
    /\ timer_deadline' = tm.deadline

SetFsmFinalize(r) ==
    /\ fsm' = r[1]
    /\ fsm_ret' = r[2]
    /\ fsm_out' = r[3]

(* ------------------------------ handlers ------------------------------ *)
\* rising edge on sensor0: start_isr, and sensor_fsm_handle_start(now)
EntryEdge ==
    /\ boot_pc \in {"start_cb", "end_cb", "running"}
    /\ IF InWarm THEN state = SENSOR_IDLE ELSE entries < max_entries
    /\ entries' = IF InWarm THEN entries ELSE entries + 1
    /\ cycles' = IF state = SENSOR_IDLE THEN cycles + 1 ELSE cycles
    /\ SetStation(start_isr(Station, Timer, now).st)
    /\ SetTimer(start_isr(Station, Timer, now).timer)
    /\ fsm' = sensor_fsm_handle_start(fsm, now)
    /\ ev' = "entry"
    /\ g_open' = TRUE
    /\ g_open_time' = IF g_open THEN g_open_time ELSE now
    /\ g_entries' = IF g_open THEN g_entries + 1 ELSE 1
    /\ g_last_entry' = now
    /\ g_first_exit' = IF g_open THEN g_first_exit ELSE -1
    /\ UNCHANGED <<now, outVars, fsm_ret, fsm_out, warm, max_entries, max_ticks,
                   finals, ticks, restVars>>

\* rising edge on sensor1: end_isr, and sensor_fsm_handle_end(now)
ExitEdge ==
    /\ boot_pc \in {"end_cb", "running"}
    /\ InWarm => (state = SENSOR_ACTIVE /\ ~speed_measured /\ now > start_time)
    /\ SetStation(end_isr(Station, now))
    /\ fsm' = sensor_fsm_handle_end(fsm, now)
    /\ ev' = "exit"
    /\ g_first_exit' = IF g_open /\ g_first_exit = -1 THEN now ELSE g_first_exit
    /\ UNCHANGED <<now, timerVars, outVars, fsm_ret, fsm_out, envVars,
                   g_open, g_open_time, g_entries, g_last_entry, restVars>>

\* the clock advances by d ms; a pending timeout is never overrun
Tick(d) ==
    /\ timer_armed => now + d <= timer_deadline
    /\ IF InWarm
       THEN state = SENSOR_ACTIVE /\ now = start_time /\ d = 10
       ELSE ticks < max_ticks
    /\ now' = now + d
    /\ ticks' = IF InWarm THEN ticks ELSE ticks + 1
    /\ ev' = "tick"
    /\ UNCHANGED <<stationVars, timerVars, outVars, fsmVars, warm, max_entries,
                   max_ticks, cycles, finals, entries, obsVars, restVars>>

\* the one-shot axle_timer reaches its deadline: axle_timer_expiry, and
\* sensor_fsm_finalize on the header state machine
AxleTimerExpiry ==
    /\ boot_pc = "running"
    /\ exp_pc = "idle"
    /\ timer_armed
    /\ InWarm => speed_measured
    /\ now' = timer_deadline
    /\ timer_armed' = FALSE
    /\ timer_deadline' = timer_deadline
    /\ SetStation(axle_timer_expiry(Station, sensor_msgq).st)
    /\ sensor_msgq' = axle_timer_expiry(Station, sensor_msgq).q
    /\ st_produced' = axle_timer_expiry(Station, sensor_msgq).produced
    /\ st_put' = axle_timer_expiry(Station, sensor_msgq).put
    /\ st_data' = IF axle_timer_expiry(Station, sensor_msgq).produced
                  THEN axle_timer_expiry(Station, sensor_msgq).data
                  ELSE st_data
    /\ finals' = IF state = SENSOR_ACTIVE THEN finals + 1 ELSE finals
    /\ SetFsmFinalize(sensor_fsm_finalize(fsm, fsm_out))
    /\ ev' = "timeout"
    /\ g_open' = FALSE
    /\ UNCHANGED <<warm, max_entries, max_ticks, cycles, entries, ticks,
                   g_open_time, g_entries, g_last_entry, g_first_exit, restVars>>

\* sensor_fsm_finalize called on the header state machine while it is Idle
FinalizeIdle ==
    /\ fsm.state = SENSOR_IDLE
    /\ ev # "finalize_idle"
    /\ SetFsmFinalize(sensor_fsm_finalize(fsm, fsm_out))
    /\ ev' = "finalize_idle"
    /\ UNCHANGED <<now, stationVars, timerVars, outVars, envVars, obsVars, restVars>>

(* ------------- axle_timer_expiry preempted by the edge ISRs ------------ *)
\* what no line of axle_timer_expiry touches
expFrame ==
    <<start_time, end_time, axle_count, speed_measured, timer_deadline, warm,
      max_entries, max_ticks, cycles, entries, ticks, g_open_time, g_entries,
      g_last_entry, g_first_exit, bootVars, pureVars>>

\* the timeout is due and axle_timer_expiry is entered: the test of line 78,
\* and sensor_fsm_finalize on the header state machine
ExpEnter ==
    /\ boot_pc = "running"
    /\ exp_pc = "idle"
    /\ timer_armed
    /\ now' = timer_deadline
    /\ timer_armed' = FALSE
    /\ exp_pc' = IF state = SENSOR_ACTIVE THEN "l79" ELSE "idle"
    /\ exp_data' = NoData
    /\ st_produced' = FALSE
    /\ st_put' = "none"
    /\ finals' = IF state = SENSOR_ACTIVE THEN finals + 1 ELSE finals
    /\ SetFsmFinalize(sensor_fsm_finalize(fsm, fsm_out))
    /\ ev' = IF state = SENSOR_ACTIVE THEN "expiry" ELSE "timeout"
    /\ g_open' = IF state = SENSOR_ACTIVE THEN g_open ELSE FALSE
    /\ UNCHANGED <<state, sensor_msgq, st_data, expFrame>>

\* line 79: speed_measured && end_time > start_time
ExpTestValid ==
    /\ exp_pc = "l79"
    /\ exp_pc' = IF reading_valid(Station) THEN "l82" ELSE "l106"
    /\ st_produced' = reading_valid(Station)
    /\ ev' = "expiry"
    /\ UNCHANGED <<now, state, timer_armed, sensor_msgq, st_data, st_put,
                   fsmVars, finals, g_open, exp_data, expFrame>>

\* lines 82-84: data.timestamp_start, data.timestamp_end, data.duration_ms
ExpCopyTimes ==
    /\ exp_pc = "l82"
    /\ exp_pc' = "l85"
    /\ exp_data' = [exp_data EXCEPT
                       !.timestamp_start = start_time,
                       !.timestamp_end = end_time,
                       !.duration_ms = ToUint32(end_time - start_time)]
    /\ ev' = "expiry"
    /\ UNCHANGED <<now, state, timer_armed, outVars, fsmVars, finals, g_open,
                   expFrame>>

\* line 85: data.axle_count = axle_count
ExpCopyAxles ==
    /\ exp_pc = "l85"
    /\ exp_pc' = "l88"
    /\ exp_data' = [exp_data EXCEPT !.axle_count = axle_count]
    /\ ev' = "expiry"
    /\ UNCHANGED <<now, state, timer_armed, outVars, fsmVars, finals, g_open,
                   expFrame>>

\* lines 88-92: data.type from axle_count, which is not volatile and may
\* have been written by start_isr since line 85: the value tested is the
\* one in memory or the one already loaded for line 85
ExpClassify ==
    /\ exp_pc = "l88"
    /\ exp_pc' = "l98"
    /\ \E n \in {axle_count, exp_data.axle_count} :
          exp_data' = [exp_data EXCEPT
                          !.type = IF n <= 2 THEN VEHICLE_LIGHT ELSE VEHICLE_HEAVY]
    /\ ev' = "expiry"
    /\ UNCHANGED <<now, state, timer_armed, outVars, fsmVars, finals, g_open,
                   expFrame>>

\* line 98: k_msgq_put(&sensor_msgq, &data, K_NO_WAIT)
ExpPut ==
    /\ exp_pc = "l98"
    /\ exp_pc' = "l106"
    /\ sensor_msgq' = k_msgq_put(sensor_msgq, exp_data)
    /\ st_put' = IF k_msgq_full(sensor_msgq) THEN "full" ELSE "ok"
    /\ st_data' = exp_data
    /\ ev' = "expiry"
    /\ UNCHANGED <<now, state, timer_armed, st_produced, fsmVars, finals,
                   g_open, exp_data, expFrame>>

\* line 106: state = SENSOR_IDLE, and the handler returns
ExpSetIdle ==
    /\ exp_pc = "l106"
    /\ exp_pc' = "idle"
    /\ state' = SENSOR_IDLE
    /\ ev' = "timeout"
    /\ g_open' = FALSE
    /\ UNCHANGED <<now, timer_armed, outVars, fsmVars, finals, exp_data,
                   expFrame>>

\* the clock advances between handlers, not within one
PreTick(d) == exp_pc = "idle" /\ Tick(d)

\* the edge ISRs may run between any two lines of axle_timer_expiry
NextPre ==
    \/ EntryEdge
    \/ ExitEdge
    \/ \E d \in Steps : PreTick(d)
    \/ ExpEnter
    \/ ExpTestValid
    \/ ExpCopyTimes
    \/ ExpCopyAxles
    \/ ExpClassify
    \/ ExpPut
    \/ ExpSetIdle

(* ------------------- sensor_thread_entry, lines 159-167 ---------------- *)
bootFrame ==
    <<now, stationVars, outVars, fsmVars, ev, envVars, obsVars, expVars,
      pureVars>>

\* lines 164-165: the end callback is initialised and added
BootAddEndCallback ==
    /\ boot_pc = "start_cb"
    /\ boot_pc' = "end_cb"
    /\ UNCHANGED <<timerVars, bootFrame>>

\* line 167: k_timer_init(&axle_timer, axle_timer_expiry, NULL). When
\* start_isr has already started the timer, its timeout node is linked in the
\* kernel's timeout list and k_timer_init re-initialises it in place
\* (undefined behaviour): the timeout stays pending, is lost, or the kernel
\* faults on the corrupted list
BootTimerInit ==
    /\ boot_pc = "end_cb"
    /\ IF timer_armed
       THEN \E o \in {"pending", "lost", "fault"} :
               /\ boot_pc' = IF o = "fault" THEN "fault" ELSE "running"
               /\ timer_armed' = (o = "pending")
       ELSE boot_pc' = "running" /\ timer_armed' = FALSE
    /\ UNCHANGED <<timer_deadline, bootFrame>>

\* the timeout started by start_isr is due before line 167 has run: the
\* timer's expiry function is still NULL, so axle_timer_expiry is not called
BootTimerExpiry ==
    /\ boot_pc \in {"start_cb", "end_cb"}
    /\ timer_armed
    /\ now' = timer_deadline
    /\ timer_armed' = FALSE
    /\ ev' = "expiry_null"
    /\ UNCHANGED <<timer_deadline, stationVars, outVars, fsmVars, envVars,
                   obsVars, expVars, pureVars, bootVars>>

\* the station from the registration of the start callback on
NextBoot ==
    \/ BootAddEndCallback
    \/ BootTimerInit
    \/ BootTimerExpiry
    \/ EntryEdge
    \/ ExitEdge
    \/ \E d \in Steps : Tick(d)
    \/ AxleTimerExpiry

\* the station's handlers, each also driving the header state machine
NextStation ==
    \/ EntryEdge
    \/ ExitEdge
    \/ \E d \in Steps : Tick(d)
    \/ AxleTimerExpiry

Next ==
    \/ NextStation
    \/ FinalizeIdle

Spec == Init /\ [][Next]_vars

SpecQ == InitQ /\ [][Next]_vars

\* a pending axle_timer does expire: the kernel's clock interrupt runs the
\* expiry function of every timeout that is due
SpecQLive == InitQLive /\ [][NextStation]_vars /\ WF_vars(AxleTimerExpiry)

NextCalc ==
    \/ CalculateSpeed
    \/ CalculateSpeedDivZero

SpecPre == Init /\ [][NextPre]_vars

SpecBoot == InitBoot /\ [][NextBoot]_vars

SpecCalc == InitCalc /\ [][NextCalc]_vars

NextPlate == ValidatePlate

SpecPlate == InitPlate /\ [][NextPlate]_vars

NextClass == ClassifyRecord

SpecClass == InitClass /\ [][NextClass]_vars

NextFade == PwmLedFade

SpecFade == Init /\ [][NextFade]_vars

(* ----------------------------- properties ----------------------------- *)
\* every sensor_data_t the model holds: the queued ones and the two last built
Records ==
    {sensor_msgq[i] : i \in 1..Len(sensor_msgq)} \cup {st_data, fsm_out}

\* the observer's account of the open cycle: an exit edge was handled after
\* the cycle-opening entry edge, with a strictly later timestamp
ExitSeenLater == g_first_exit # -1 /\ g_first_exit > g_open_time

\* C1: when the timeout fires while Active, axle_timer_expiry builds a
\* record, and sensor_fsm_finalize returns true, if and only if
\* speed_measured holds and end_time > start_time, which is the case exactly
\* when an exit edge was handled in the cycle with a timestamp strictly later
\* than the cycle-opening entry edge; otherwise no record is built and the
\* queue is left as it was.
C1_EmitIffExitLater ==
    [][(ev' = "timeout" /\ state = SENSOR_ACTIVE) =>
          /\ st_produced' = (speed_measured /\ end_time > start_time)
          /\ st_produced' = ExitSeenLater
          /\ fsm_ret' = (fsm.speed_measured /\ fsm.end_time > fsm.start_time)
          /\ fsm_ret' = ExitSeenLater
          /\ ~st_produced' => (sensor_msgq' = sensor_msgq /\ st_put' = "none")
          /\ ~fsm_ret' => fsm_out' = fsm_out]_vars

C1_Witness ==
    /\ ev = "timeout"
    /\ st_produced
    /\ fsm_ret
    /\ st_put = "ok"
    /\ st_data.timestamp_end > st_data.timestamp_start

\* C2: in every reachable state, phase = Idle implies start_time, end_time,
\* axle_count and speed_measured hold their zero values, in the Sensor
\* Station's variables and in the header state machine alike.
C2_IdleIsZeroed ==
    /\ state = SENSOR_IDLE =>
          (start_time = 0 /\ end_time = 0 /\ axle_count = 0 /\ ~speed_measured)
    /\ fsm.state = SENSOR_IDLE => fsm = sensor_fsm_init

\* C3: while Active, axle_count equals the number of entry edges handled
\* since, and including, the cycle-opening one (exit edges and clock advances
\* leave it alone); a record built at the timeout carries that count, and
\* every record has axle_count >= 1.
C3_AxleCountIsEntries ==
    /\ state = SENSOR_ACTIVE => (axle_count = g_entries /\ fsm.axle_count = g_entries)
    /\ (ev = "timeout" /\ st_produced) =>
          (st_data.axle_count = g_entries /\ fsm_out.axle_count = g_entries)
    /\ \A i \in 1..Len(sensor_msgq) : sensor_msgq[i].axle_count >= 1
    /\ st_produced => st_data.axle_count >= 1
    /\ fsm_ret => fsm_out.axle_count >= 1

C3_Witness ==
    /\ ev = "timeout"
    /\ st_produced
    /\ st_data.axle_count = 3
    /\ g_entries = 3

\* floor(distance_mm * 36 / (duration_ms * 10)) over the integers, for
\* distance_mm * 36 < 2^31 and duration_ms >= 1 given as two halves: from
\* duration_ms = 3276 * 2^16 on, the divisor exceeds every such dividend
ExactSpeed(distance_mm, duration_ms) ==
    IF duration_ms[1] >= 3276
    THEN 0
    ELSE (distance_mm * 36) \div ((duration_ms[1] * Half + duration_ms[2]) * 10)

\* C4: for distance_mm in 0..10,000,000 and every 32-bit duration_ms >= 1,
\* calculate_speed returns exactly floor(distance_mm * 36 / (duration_ms * 10))
\* with no intermediate wrap-around; in particular (0, 1000) gives 0 and
\* (3000, 200) gives 54. Stated of the calls whose division is defined: the
\* call that divides by zero is C5's.
C4_ExactSpeed ==
    (calc_pc = "done" /\ ~calc_div0 /\ calc_distance <= 10000000
        /\ ~U32IsZero(calc_duration)) =>
       /\ calc_result = ExactSpeed(calc_distance, calc_duration)
       /\ (calc_distance = 0 /\ calc_duration = <<0, 1000>>) => calc_result = 0
       /\ (calc_distance = 3000 /\ calc_duration = <<0, 200>>) => calc_result = 54

\* C5: calculate_speed never divides by zero: it returns 0 for duration_ms = 0
\* and for every other 32-bit duration_ms its divisor is non-zero, so it
\* always returns.
C5_NoDivisionByZero ==
    calc_pc \in {"done", "fault"} =>
       /\ calc_pc = "done"
       /\ ~calc_div0
       /\ U32IsZero(calc_duration) => calc_result = 0

\* C6: within one cycle the first exit edge handled while Active records
\* end_time = now and sets speed_measured; a later exit edge of the cycle
\* changes no state machine field; and once that first exit edge is handled,
\* no entry edge or clock advance of the cycle changes end_time, start_time
\* or speed_measured.
C6_FirstExitWins ==
    [][(g_open /\ g_open') =>
          /\ (ev' = "exit" /\ g_first_exit = -1) =>
                /\ end_time' = now /\ speed_measured'
                /\ fsm'.end_time = now /\ fsm'.speed_measured
          /\ (ev' = "exit" /\ g_first_exit # -1) =>
                /\ UNCHANGED stationVars
                /\ fsm' = fsm
          /\ g_first_exit # -1 =>
                /\ UNCHANGED <<end_time, start_time, speed_measured>>
                /\ speed_measured
                /\ fsm'.end_time = fsm.end_time
                /\ fsm'.start_time = fsm.start_time
                /\ fsm'.speed_measured /\ fsm.speed_measured]_vars

C6_Witness ==
    /\ ev = "exit"
    /\ state = SENSOR_ACTIVE
    /\ speed_measured
    /\ g_first_exit = end_time
    /\ end_time < now
    /\ axle_count >= 2

\* C7: every record has vehicle_type Light if and only if its own axle_count
\* is at most 2, and Heavy otherwise.
C7_TypeByAxleCount ==
    \A r \in Records :
       /\ (r.type = VEHICLE_LIGHT) = (r.axle_count <= 2)
       /\ (r.type = VEHICLE_HEAVY) = (r.axle_count > 2)

C7_Witness ==
    /\ ev = "timeout"
    /\ st_produced
    /\ fsm_ret
    /\ st_data.type = VEHICLE_HEAVY
    /\ fsm_out.type = VEHICLE_HEAVY
    /\ \E i \in 1..Len(sensor_msgq) : sensor_msgq[i].type = VEHICLE_LIGHT

\* C8: while Active the timeout is pending and due 2000 ms after the most
\* recent entry edge of the cycle; exit edges never touch the timer; and a
\* timeout never runs before 2000 ms have elapsed since that entry edge.
C8_TimeoutAfterLastEntry ==
    /\ [](/\ state = SENSOR_ACTIVE =>
                (timer_armed /\ timer_deadline = g_last_entry + TimeoutMs)
          /\ ev = "timeout" => now - g_last_entry >= TimeoutMs)
    /\ [][ev' = "exit" => UNCHANGED timerVars]_vars

C8_Witness ==
    /\ ev = "timeout"
    /\ g_entries >= 2
    /\ g_last_entry > g_open_time
    /\ now = g_last_entry + TimeoutMs

\* C9: every cycle is finalized exactly once and yields at most one record:
\* the timeouts that found the station Active are as many as the cycles
\* opened, less the one still open; no timeout is pending while Idle; a
\* timeout adds at most one record; and sensor_fsm_finalize called while Idle
\* returns false and changes nothing.
C9_FinalizedOnce ==
    /\ [](/\ finals = cycles - (IF state = SENSOR_ACTIVE THEN 1 ELSE 0)
          /\ timer_armed => state = SENSOR_ACTIVE
          /\ Len(sensor_msgq) <= finals)
    /\ [][/\ ev' = "timeout" =>
                /\ finals' = finals + 1
                /\ Len(sensor_msgq') <= Len(sensor_msgq) + 1
          /\ ev' = "finalize_idle" =>
                /\ ~fsm_ret'
                /\ fsm' = fsm
                /\ fsm_out' = fsm_out
                /\ UNCHANGED <<stationVars, timerVars, outVars>>]_vars

C9_Witness ==
    /\ ev = "finalize_idle"
    /\ finals = 2
    /\ cycles = 2
    /\ g_entries >= 2
    /\ Len(sensor_msgq) = 1

\* C10: the queue never holds more than its capacity; a record built while
\* the queue is full is dropped and the queue keeps its content and order; a
\* record built otherwise is appended; and in both cases the timeout handler
\* leaves the state machine Idle with its other variables as they were.
C10_DropIfFull ==
    /\ [](Len(sensor_msgq) <= SensorMsgqMax)
    /\ [][(ev' = "timeout" /\ state = SENSOR_ACTIVE) =>
             /\ state' = SENSOR_IDLE
             /\ UNCHANGED <<start_time, end_time, axle_count, speed_measured>>
             /\ (st_produced' /\ Len(sensor_msgq) >= SensorMsgqMax) =>
                   (sensor_msgq' = sensor_msgq /\ st_put' = "full")
             /\ (st_produced' /\ Len(sensor_msgq) < SensorMsgqMax) =>
                   (sensor_msgq' = Append(sensor_msgq, st_data') /\ st_put' = "ok")]_vars

C10_Witness ==
    /\ ev = "timeout"
    /\ st_produced
    /\ st_put = "full"
    /\ Len(sensor_msgq) = SensorMsgqMax
    /\ state = SENSOR_IDLE
    /\ sensor_msgq[SensorMsgqMax] # st_data

\* C11: an exit edge handled while Idle is ignored: it changes no state
\* machine field of either machine, leaves the timer and the queue alone and
\* builds no record; the machines stay Idle.
C11_ExitWhileIdleIgnored ==
    [][(ev' = "exit" /\ state = SENSOR_IDLE) =>
          /\ UNCHANGED <<stationVars, timerVars, outVars>>
          /\ state' = SENSOR_IDLE
          /\ ~timer_armed'
          /\ fsm' = fsm
          /\ fsm'.state = SENSOR_IDLE
          /\ UNCHANGED <<fsm_ret, fsm_out>>]_vars

C11_Witness ==
    /\ ev = "exit"
    /\ state = SENSOR_IDLE
    /\ fsm.state = SENSOR_IDLE
    /\ ~g_open
    /\ now > 0
    /\ ~speed_measured

\* C12: a record built at the timeout has start_time equal to the timestamp
\* of the cycle-opening entry edge, end_time equal to the timestamp of the
\* cycle's first exit edge and duration_ms equal to their difference; entry
\* at 0, entry at 10, exit at 200 and the timeout at 2010 give exactly one
\* record, with duration_ms 200, axle_count 2 and type Light.
C12_RecordTimestamps ==
    /\ (ev = "timeout" /\ st_produced) =>
          /\ st_data.timestamp_start = g_open_time
          /\ st_data.timestamp_end = g_first_exit
          /\ st_data.duration_ms = g_first_exit - g_open_time
          /\ st_data.duration_ms = st_data.timestamp_end - st_data.timestamp_start
    /\ (ev = "timeout" /\ fsm_ret) =>
          /\ fsm_out.timestamp_start = g_open_time
          /\ fsm_out.timestamp_end = g_first_exit
          /\ fsm_out.duration_ms = g_first_exit - g_open_time
    /\ (ev = "timeout" /\ cycles = 1 /\ g_open_time = 0 /\ g_entries = 2
          /\ g_last_entry = 10 /\ g_first_exit = 200) =>
          /\ now = 2010
          /\ st_produced
          /\ st_data = [timestamp_start |-> 0, timestamp_end |-> 200,
                        duration_ms |-> 200, axle_count |-> 2,
                        type |-> VEHICLE_LIGHT]
          /\ sensor_msgq = <<st_data>>
          /\ fsm_ret
          /\ fsm_out = st_data

C12_Witness ==
    /\ ev = "timeout"
    /\ cycles = 1
    /\ g_open_time = 0
    /\ g_entries = 2
    /\ g_last_entry = 10
    /\ g_first_exit = 200
    /\ now = 2010
    /\ st_data.duration_ms = 200
    /\ Len(sensor_msgq) = 1

\* the pattern LLL N L NN: exactly 7 characters, an uppercase letter at
\* positions 0, 1, 2 and 4, a digit at positions 3, 5 and 6
PlatePattern(p) ==
    /\ Len(p) = 7
    /\ \A i \in {1, 2, 3, 5} : p[i] \in 65..90
    /\ \A i \in {4, 6, 7} : p[i] \in 48..57

\* C13: validate_plate returns true if and only if the string has exactly 7
\* characters matching LLL N L NN position by position; "ABC1D23" is valid
\* and "ABC123D", "abc1d23" and "ABC1D2" are not.
C13_PlatePattern ==
    plate_pc = "done" =>
       /\ plate_ok = PlatePattern(plate_str)
       /\ plate_str = PlateABC1D23 => plate_ok
       /\ plate_str \in {PlateABC123D, Plateabc1d23, PlateABC1D2} => ~plate_ok

C13_Witness ==
    /\ plate_pc = "done"
    /\ plate_str = PlateABC1D23
    /\ plate_ok

\* C14: after the warm-up traffic, whenever the state machine is Active it
\* becomes Idle again (the timeout fires once entry edges stop), whether the
\* cycle yields a record, is discarded or its record is dropped by the full
\* queue; and an entry edge handled while Idle opens a fresh cycle with
\* axle_count = 1 and speed_measured = false in both machines.
C14_ReturnsToIdle ==
    /\ (state = SENSOR_ACTIVE /\ ~InWarm) ~> (state = SENSOR_IDLE)
    /\ [][(ev' = "entry" /\ state = SENSOR_IDLE) =>
             /\ state' = SENSOR_ACTIVE
             /\ axle_count' = 1
             /\ ~speed_measured'
             /\ fsm'.state = SENSOR_ACTIVE
             /\ fsm'.axle_count = 1
             /\ ~fsm'.speed_measured]_vars

C14_Witness ==
    /\ ev = "entry"
    /\ st_put = "full"
    /\ state = SENSOR_ACTIVE
    /\ axle_count = 1
    /\ ~speed_measured
    /\ end_time > 0

\* C15: every classified record gets speed_kmh from the speed calculator
\* (the truncated quotient), limit_kmh by its vehicle type, and its status in
\* this order: Infraction if speed_kmh > limit_kmh, else Warning if
\* speed_kmh >= limit_kmh * warning_threshold_percent / 100, else Normal;
\* with limit 60 and threshold 80%, 45 is Normal, 48 Warning, 61 Infraction.
C15_StatusPolicy ==
    class_pc = "done" =>
        LET speed == ExactSpeed(class_cfg.distance_mm,
                                <<0, class_rec.duration_ms>>)
            limit == IF class_rec.type = VEHICLE_HEAVY
                     THEN class_cfg.limit_heavy_kmh
                     ELSE class_cfg.limit_light_kmh
            thr == class_cfg.warning_threshold_percent
        IN  /\ class_speed = speed
            /\ class_limit = limit
            /\ speed > limit => class_status = "Infraction"
            /\ (speed <= limit /\ speed >= (limit * thr) \div 100)
                   => class_status = "Warning"
            /\ (speed <= limit /\ speed < (limit * thr) \div 100)
                   => class_status = "Normal"
            /\ (limit = 60 /\ thr = 80) =>
                   /\ speed = 45 => class_status = "Normal"
                   /\ speed = 48 => class_status = "Warning"
                   /\ speed = 61 => class_status = "Infraction"

C15_Witness ==
    /\ class_pc = "done"
    /\ class_limit = 60
    /\ class_cfg.warning_threshold_percent = 80
    /\ class_cfg.distance_mm = 3000
    /\ class_rec.duration_ms = 225
    /\ class_speed = 48
    /\ class_status = "Warning"

\* C18: driven by the same timestamped entry edges, exit edges and timeouts,
\* the station (start_isr, end_isr, axle_timer_expiry) and the header state
\* machine (sensor_fsm_handle_start, sensor_fsm_handle_end,
\* sensor_fsm_finalize) are Active at the same times, emit a record at
\* exactly the same timeouts, and the records they emit agree in start and
\* end timestamp, duration_ms, axle_count and type.
C18_StationMatchesHeader ==
    /\ state = fsm.state
    /\ ev = "timeout" =>
          /\ st_produced = fsm_ret
          /\ st_produced =>
                /\ st_data.timestamp_start = fsm_out.timestamp_start
                /\ st_data.timestamp_end = fsm_out.timestamp_end
                /\ st_data.duration_ms = fsm_out.duration_ms
                /\ st_data.axle_count = fsm_out.axle_count
                /\ st_data.type = fsm_out.type

\* a record emitted by both, the internal fields of the two machines
\* differing afterwards
C18_Witness ==
    /\ ev = "timeout"
    /\ st_produced
    /\ fsm_ret
    /\ st_data.timestamp_end = g_first_exit
    /\ st_data.axle_count >= 2
    /\ end_time # fsm.end_time
    /\ axle_count # fsm.axle_count

\* C19: cycles are isolated. While a cycle is open, start_time, axle_count,
\* speed_measured and (once set) end_time of both machines are those of the
\* events handled since the cycle-opening entry edge; every record carries
\* the opening timestamp, first exit timestamp and entry count of the cycle
\* being finalized; and a cycle in which no exit edge was handled emits
\* nothing, whatever end_time or flag an earlier cycle left behind.
C19_CyclesIsolated ==
    /\ state = SENSOR_ACTIVE =>
          /\ start_time = g_open_time /\ fsm.start_time = g_open_time
          /\ axle_count = g_entries /\ fsm.axle_count = g_entries
          /\ speed_measured = (g_first_exit # -1)
          /\ fsm.speed_measured = (g_first_exit # -1)
          /\ g_first_exit # -1 =>
                /\ end_time = g_first_exit /\ fsm.end_time = g_first_exit
                /\ g_open_time <= g_first_exit /\ g_first_exit <= now
    /\ (ev = "timeout" /\ (st_produced \/ fsm_ret)) =>
          /\ g_first_exit # -1
          /\ \A d \in {st_data, fsm_out} :
                /\ d.timestamp_start = g_open_time
                /\ d.timestamp_end = g_first_exit
                /\ d.axle_count = g_entries
                /\ g_open_time <= d.timestamp_end /\ d.timestamp_end <= now
    /\ (ev = "timeout" /\ g_first_exit = -1) => (~st_produced /\ ~fsm_ret)

\* a later cycle without exit edge is discarded while the station still
\* holds the end_time of an earlier cycle that produced a record
C19_Witness ==
    /\ ev = "timeout"
    /\ finals >= 2
    /\ g_first_exit = -1
    /\ ~st_produced
    /\ st_data # NoData
    /\ end_time = st_data.timestamp_end
    /\ end_time # 0

\* C20: the clock never goes back and handlers are serialized, so whenever a
\* machine is Active with speed_measured set, end_time >= start_time; a
\* cycle in which an exit edge was handled is discarded only when its first
\* exit edge has the timestamp of the cycle-opening entry edge; and every
\* record built has duration_ms >= 1.
C20_EndNotBeforeStart ==
    /\ (state = SENSOR_ACTIVE /\ speed_measured) => end_time >= start_time
    /\ (fsm.state = SENSOR_ACTIVE /\ fsm.speed_measured) =>
          fsm.end_time >= fsm.start_time
    /\ (ev = "timeout" /\ g_first_exit # -1 /\ ~st_produced) =>
          /\ g_first_exit = g_open_time
          /\ end_time = start_time
          /\ ~fsm_ret
    /\ \A d \in Records : d # NoData => d.duration_ms >= 1

\* a cycle whose exit edge came in the millisecond of its entry edge,
\* discarded at the timeout
C20_Witness ==
    /\ ev = "timeout"
    /\ speed_measured
    /\ g_first_exit = g_open_time
    /\ end_time = start_time
    /\ ~st_produced
    /\ ~fsm_ret

\* C16: with an entry-edge or exit-edge interrupt allowed between any two
\* lines of the timeout handler, every record it emits is a consistent
\* snapshot (its type is the one of its own axle_count, its duration_ms the
\* difference of its own timestamps) and no entry edge is lost: the record's
\* axle_count counts every entry edge handled until the cycle was finalized.
C16_AtomicRecord ==
    (ev = "timeout" /\ exp_pc = "idle" /\ st_produced) =>
        /\ st_data.type =
              (IF st_data.axle_count <= 2 THEN VEHICLE_LIGHT ELSE VEHICLE_HEAVY)
        /\ st_data.duration_ms = st_data.timestamp_end - st_data.timestamp_start
        /\ st_data.axle_count = g_entries

\* C17: from the registration of the edge callbacks on, the timeout is
\* pending whenever the station is Active and not pending whenever it is
\* Idle, an entry edge arriving before the timer is initialised included.
C17_PendingIffActive ==
    boot_pc # "fault" => (timer_armed <=> state = SENSOR_ACTIVE)

\* position in the sweep after n calls: 20 calls up, 20 calls down
FadePhase == fade_calls % 40

\* C21: after any number of calls of pwm_led_fade, duty_cycle is a multiple
\* of 5 within 0..100 (adding direction * 5 with direction = -1 never wraps
\* below zero), direction is +1 or -1, and the duty cycle sweeps from 0 up
\* to 100 and back down to 0 again and again in steps of 5, the direction
\* reversing exactly at 100 and at 0.
C21_FadeSweep ==
    /\ [](/\ duty_cycle[1] = 0
           /\ duty_cycle[2] \in 0..100
           /\ duty_cycle[2] % 5 = 0
           /\ direction \in {1, -1}
           /\ duty_cycle[2] = (IF FadePhase <= 20 THEN 5 * FadePhase
                                                 ELSE 5 * (40 - FadePhase))
           /\ direction = (IF FadePhase < 20 THEN 1 ELSE -1))
    /\ [][fade_calls' # fade_calls =>
             /\ duty_cycle[2] + direction * 5 \in 0..100
             /\ duty_cycle'[2] = duty_cycle[2] + direction * 5
             /\ (direction' # direction) <=> (duty_cycle'[2] \in {0, 100})
             /\ duty_cycle'[2] = 100 => direction' = -1
             /\ duty_cycle'[2] = 0 => direction' = 1
             /\ pulse_us' = <<0, 200 * duty_cycle[2]>>]_vars

\* two full sweeps done: back at 0 after the step down from 5, going up
C21_Witness ==
    /\ fade_calls = 80
    /\ duty_cycle = <<0, 0>>
    /\ direction = 1
    /\ pulse_us = <<0, 1000>>

====
